---- MODULE Spec2Model ----
(***************************************************************************)
(* Model of adafruit_ethernetmanager.EthernetManager.                      *)
(*                                                                         *)
(* The manager is single threaded: one call is in progress at a time and   *)
(* pc is its position.  A call is cut into steps at the places where it    *)
(* talks to a collaborator (the driver's link state and address, the       *)
(* sleep, the delegated HTTP call, the socket's recv).  The collaborators  *)
(* are the environment: the cable may be plugged or pulled at any moment,  *)
(* every poll may report any address, every recv may deliver the next byte *)
(* or nothing, and the clock advances while recv blocks.                   *)
(*                                                                         *)
(* log is what the simulated collaborators record during the call in       *)
(* progress: writes to the indicator, polls of the address, sleeps,        *)
(* invocations of connect from a verb, and delegated HTTP calls.           *)
(*                                                                         *)
(* Not modelled: the debug flag (it only prints), and dchp, ifconfig,      *)
(* ip_address and reset, which none of the checked properties involve.     *)
(***************************************************************************)
EXTENDS Integers, Sequences, FiniteSets, TLC

\* ---- bounds ----
MaxAttempts == 3
MaxLen == 4
MaxTimeout == 2
MaxEpoch == 1
NumOtherBytes == 1

\* ---- program constants ----
DefaultAttempts == 30
DefaultTimeout == 1
SleepSeconds == 1
CR == 13
LF == 10

SENTINEL == "0.0.0.0"
LEASED == "192.168.1.2"
Addresses == {SENTINEL, LEASED}

PIXEL_OFF == <<0>>
CONNECTING == <<100, 0, 0>>
CONNECTED == <<0, 100, 0>>
REQUESTING == <<0, 0, 100>>

Verbs == {"get", "post", "put", "patch", "delete"}
Bytes == {CR, LF} \cup (72 .. (71 + NumOtherBytes))
CRLF == <<CR, LF>>

MaxElapsed == MaxTimeout + 1
AttemptValues == (-1) .. MaxAttempts
TimeoutValues == (-1) .. MaxTimeout

RECURSIVE SeqsUpTo(_)
SeqsUpTo(n) ==
    IF n = 0 THEN {<<>>}
    ELSE LET shorter == SeqsUpTo(n - 1)
         IN  shorter \cup {Append(s, b) : s \in {t \in shorter : Len(t) = n - 1}, b \in Bytes}

Streams == SeqsUpTo(MaxLen)

VARIABLES
    eth,            \* self.eth: "WIZNET5K" or "None"
    statuspix,      \* self.statuspix: "none", "color" (has .color) or "fill"
    pixel,          \* the value the indicator shows
    connected,      \* the driver's physical link state (eth.connected)
    pc,             \* position of the call in progress
    op,             \* the top-level call in progress, or the last one
    attempts,       \* connect's parameter
    failure_count,  \* connect's local
    connect_ret,    \* what the last connect did: "none", "True", "False" or an error
    outcome,        \* what the last top-level call did
    log,            \* collaborator events of the call in progress
    sock,           \* the bytes the socket has to deliver
    consumed,       \* how many of them recv has delivered
    sock_closed,    \* sock.close() was called
    line,           \* readline's local
    timeout,        \* readline's parameter
    initial,        \* readline's local, time.monotonic() at entry
    monotonic       \* the clock

vars == <<eth, statuspix, pixel, connected, pc, op, attempts, failure_count,
          connect_ret, outcome, log, sock, consumed, sock_closed, line,
          timeout, initial, monotonic>>

mgrVars == <<eth, statuspix, connected>>
connVars == <<attempts, failure_count, connect_ret>>
rlVars == <<sock, consumed, sock_closed, line, timeout, initial, monotonic>>

\* ---- pure helpers ----

\* b"\r\n" in line
HasCRLF(s) == \E i \in 1 .. (Len(s) - 1) : s[i] = CR /\ s[i + 1] = LF

FirstCRLF(s) == CHOOSE i \in 1 .. (Len(s) - 1) :
                    /\ s[i] = CR /\ s[i + 1] = LF
                    /\ \A j \in 1 .. (i - 1) : ~(s[j] = CR /\ s[j + 1] = LF)

\* readline's failure test after a recv
ReadFailedOnlyBoth(t, now, t0, data) == (t > 0 /\ now - t0 > t /\ data = <<>>)
ReadFailed(t, now, t0, data) == (t > 0 /\ now - t0 > t) \/ data = <<>>

\* pixel_status(value), applied to the pair (indicator value, log)
pixel_status(st, value) ==
    IF statuspix = "none" THEN st
    ELSE [pixel |-> value, log |-> Append(st.log, <<"pixel", value>>)]

Here == [pixel |-> pixel, log |-> log]
Logged(st, e) == [st EXCEPT !.log = Append(@, e)]
\* a read of the driver's link state, as the driver sees it
Read(st) == Logged(st, <<"connected", connected>>)

\* ---- construction ----
Init ==
    /\ eth = "WIZNET5K"
    /\ statuspix \in {"none", "color", "fill"}
    /\ pixel = PIXEL_OFF
    /\ connected \in BOOLEAN
    /\ pc = "idle"
    /\ op = "init"
    /\ attempts = 0
    /\ failure_count = 0
    /\ connect_ret = "none"
    /\ outcome = "none"
    /\ log = <<>>
    /\ sock = <<>>
    /\ consumed = 0
    /\ sock_closed = FALSE
    /\ line = <<>>
    /\ timeout = DefaultTimeout
    /\ initial = 0
    /\ monotonic = 0

\* a new top-level call forgets the locals and the recording of the last one
FreshConn == attempts' = 0 /\ failure_count' = 0 /\ connect_ret' = "none"
FreshRL ==
    /\ sock' = <<>> /\ consumed' = 0 /\ sock_closed' = FALSE /\ line' = <<>>
    /\ timeout' = DefaultTimeout /\ initial' = 0 /\ monotonic' = 0

\* ---- environment ----
CableChange ==
    /\ connected' = ~connected
    /\ UNCHANGED <<eth, statuspix, pixel, pc, op, connVars, outcome, log, rlVars>>

\* ---- deinit / scoped exit ----
DeinitKeepsDriver ==
    /\ eth' = eth
    /\ outcome' = "None"
    /\ log' = <<>>
    /\ FreshConn /\ FreshRL
    /\ UNCHANGED <<statuspix, pixel, connected, pc>>

\* self.eth = None
DeinitBody ==
    /\ eth' = "None"
    /\ outcome' = "None"
    /\ log' = <<>>
    /\ FreshConn /\ FreshRL
    /\ UNCHANGED <<statuspix, pixel, connected, pc>>

Deinit ==
    /\ pc = "idle"
    /\ op' = "deinit"
    /\ DeinitBody

Exit ==
    /\ pc = "idle"
    /\ \E exception_type \in {"None", "Exception"} :
        /\ op' = "exit"
        /\ DeinitBody

\* ---- is_connected ----
\* return self.eth.connected, for a manager that still has its driver
is_connectedStuck == TRUE
is_connected == connected

IsConnected ==
    /\ pc = "idle"
    /\ op' = "is_connected"
    /\ outcome' = IF eth = "None" THEN "AttributeError"
                  ELSE IF is_connected THEN "True" ELSE "False"
    /\ log' = IF eth = "None" THEN <<>> ELSE <<<<"connected", connected>>>>
    /\ FreshConn /\ FreshRL
    /\ UNCHANGED <<mgrVars, pixel, pc>>

\* ---- connect ----

\* self.eth.ifconfig()[0] == "0.0.0.0"
UnassignedInverted(addr) == addr # SENTINEL
Unassigned(addr) == addr = SENTINEL

\* failure_count >= attempts
GiveUpLate(fc, n) == fc > n
GiveUpEarly(fc, n) == fc + 1 >= n
GiveUp(fc, n) == fc >= n

\* the indicator writes of connect
ShowConnecting(st) == pixel_status(st, CONNECTING)
ShowConnected(st) == pixel_status(st, CONNECTED)
ShowRequesting(st) == pixel_status(st, REQUESTING)

\* the call in progress ends: with an exception, which also leaves the verb
\* that invoked connect, or with a returned value
Finish(exc, st) ==
    /\ outcome' = exc
    /\ pc' = "idle"
    /\ pixel' = st.pixel
    /\ log' = st.log

\* connect returns val: to the caller, or into the verb that invoked it, which
\* drops val and goes on to set the requesting colour
ConnectReturn(val, st) ==
    /\ connect_ret' = val
    /\ IF op = "connect"
       THEN /\ outcome' = val
            /\ pc' = "idle"
            /\ pixel' = st.pixel
            /\ log' = st.log
       ELSE /\ outcome' = outcome
            /\ pc' = "verb_request"
            /\ pixel' = ShowRequesting(st).pixel
            /\ log' = ShowRequesting(st).log

ConnectCall ==
    /\ pc = "idle"
    /\ \E n \in AttemptValues :
        /\ op' = "connect"
        /\ attempts' = n
        /\ failure_count' = 0
        /\ connect_ret' = "none"
        /\ outcome' = "none"
        /\ log' = <<>>
        /\ pc' = "connect_entry"
        /\ FreshRL
        /\ UNCHANGED <<mgrVars, pixel>>

\* failure_count = 0; if self.is_connected: ... else: raise
ConnectEntry ==
    /\ pc = "connect_entry"
    /\ failure_count' = 0
    /\ IF eth = "None"
       THEN /\ connect_ret' = "AttributeError"
            /\ Finish("AttributeError", Here)
       ELSE IF is_connected
       THEN /\ connect_ret' = "none"
            /\ pc' = "connect_poll"
            /\ pixel' = ShowConnecting(Read(Here)).pixel
            /\ log' = ShowConnecting(Read(Here)).log
            /\ outcome' = outcome
       ELSE /\ connect_ret' = "Ethernet_Exception"
            /\ Finish("Ethernet_Exception", Read(Here))
    /\ UNCHANGED <<mgrVars, op, attempts, rlVars>>

\* one evaluation of the while condition and, when it holds, the loop body up
\* to the sleep
ConnectPoll ==
    /\ pc = "connect_poll"
    /\ \E addr \in Addresses :
        LET polled == Logged(Here, <<"ifconfig", addr>>) IN
        IF Unassigned(addr)
        THEN /\ failure_count' = failure_count + 1
             /\ IF GiveUp(failure_count + 1, attempts)
                THEN ConnectReturn("False", polled)
                ELSE /\ pc' = "connect_sleep"
                     /\ pixel' = polled.pixel
                     /\ log' = polled.log
                     /\ UNCHANGED <<connect_ret, outcome>>
        ELSE /\ failure_count' = failure_count
             /\ ConnectReturn("True", ShowConnected(polled))
    /\ UNCHANGED <<mgrVars, op, attempts, rlVars>>

\* time.sleep(1)
ConnectSleep ==
    /\ pc = "connect_sleep"
    /\ log' = Append(log, <<"sleep", SleepSeconds>>)
    /\ pc' = "connect_poll"
    /\ UNCHANGED <<mgrVars, pixel, op, connVars, outcome, rlVars>>

\* ---- HTTP verbs ----

\* if not self.is_connected: self.connect()
ConnectsWhenUp(c) == c
NeedsConnect(c) == ~c

\* the verbs that call self.pixel_status(0) after the delegated call
ResetsIndicator(v) == v # "post"

VerbCall ==
    /\ pc = "idle"
    /\ \E v \in Verbs :
        /\ op' = v
        /\ failure_count' = 0
        /\ connect_ret' = "none"
        /\ FreshRL
        /\ IF eth = "None"
           THEN /\ attempts' = 0
                /\ Finish("AttributeError", [pixel |-> pixel, log |-> <<>>])
           ELSE LET read == Read([pixel |-> pixel, log |-> <<>>]) IN
                IF NeedsConnect(is_connected)
                THEN /\ attempts' = DefaultAttempts
                     /\ pc' = "connect_entry"
                     /\ pixel' = pixel
                     /\ log' = Logged(read, <<"connect">>).log
                     /\ outcome' = "none"
                ELSE /\ attempts' = 0
                     /\ pc' = "verb_request"
                     /\ pixel' = ShowRequesting(read).pixel
                     /\ log' = ShowRequesting(read).log
                     /\ outcome' = "none"
    /\ UNCHANGED mgrVars

\* return_val = requests.<verb>(url, **kw), which returns a response or raises,
\* and what follows it
VerbRequest ==
    /\ pc = "verb_request"
    /\ \E ok \in BOOLEAN :
        LET called == Logged(Here, <<"request", op>>) IN
        IF ~ok
        THEN Finish("RequestError", called)
        ELSE IF ResetsIndicator(op)
        THEN Finish("Response", pixel_status(called, PIXEL_OFF))
        ELSE Finish("Response", called)
    /\ UNCHANGED <<mgrVars, op, connVars, rlVars>>

\* ---- readline ----

\* line.split(b"\r\n", 1)
SplitKeepCR(s) ==
    IF HasCRLF(s)
    THEN <<SubSeq(s, 1, FirstCRLF(s)), SubSeq(s, FirstCRLF(s) + 2, Len(s))>>
    ELSE <<s>>
Split1(s) ==
    IF HasCRLF(s)
    THEN <<SubSeq(s, 1, FirstCRLF(s) - 1), SubSeq(s, FirstCRLF(s) + 2, Len(s))>>
    ELSE <<s>>

\* a call readline(sock, timeout) at its first line: initial = time.monotonic()
\* and line = bytes(), for every socket content, timeout and clock reading
ReadlineInit ==
    /\ eth = "WIZNET5K"
    /\ statuspix = "none"
    /\ pixel = PIXEL_OFF
    /\ connected = FALSE
    /\ pc = "readline_loop"
    /\ op = "readline"
    /\ attempts = 0
    /\ failure_count = 0
    /\ connect_ret = "none"
    /\ outcome = "none"
    /\ log = <<>>
    /\ sock \in Streams
    /\ consumed = 0
    /\ sock_closed = FALSE
    /\ line = <<>>
    /\ timeout \in TimeoutValues
    /\ initial \in 0 .. MaxEpoch
    /\ monotonic = initial

\* what sock.recv(1) may return: the next byte, or nothing
Recv == {<<>>} \cup (IF consumed < Len(sock) THEN {<<sock[consumed + 1]>>} ELSE {})

\* one pass of the while loop, and the return when its condition then fails
ReadlineRecv ==
    /\ pc = "readline_loop"
    /\ ~HasCRLF(line)
    /\ \E data \in Recv, now \in monotonic .. (initial + MaxElapsed) :
        /\ consumed' = consumed + Len(data)
        /\ monotonic' = now
        /\ IF ReadFailed(timeout, now, initial, data)
           THEN /\ line' = line \o data
                /\ sock_closed' = TRUE
                /\ log' = log \o <<<<"recv", data>>, <<"close">>>>
                /\ outcome' = "RuntimeError"
                /\ pc' = "idle"
           ELSE IF HasCRLF(line \o data)
           THEN /\ line' = Split1(line \o data)
                /\ sock_closed' = sock_closed
                /\ log' = Append(log, <<"recv", data>>)
                /\ outcome' = "line"
                /\ pc' = "idle"
           ELSE /\ line' = line \o data
                /\ sock_closed' = sock_closed
                /\ log' = Append(log, <<"recv", data>>)
                /\ outcome' = outcome
                /\ pc' = pc
    /\ UNCHANGED <<mgrVars, pixel, op, connVars, sock, timeout, initial>>

\* ---- the manager's calls ----
Next ==
    \/ CableChange
    \/ Deinit
    \/ Exit
    \/ IsConnected
    \/ ConnectCall
    \/ ConnectEntry
    \/ ConnectPoll
    \/ ConnectSleep
    \/ VerbCall
    \/ VerbRequest

Spec == Init /\ [][Next]_vars

\* ---- readline, which reads and writes nothing of the manager ----
ReadlineNext == ReadlineRecv

ReadlineSpec == ReadlineInit /\ [][ReadlineNext]_vars

\* ---- what the collaborators recorded ----
HasIndicator == statuspix # "none"
Idx(kind) == {i \in 1 .. Len(log) : log[i][1] = kind}
Polls == Idx("ifconfig")
Sleeps == Idx("sleep")
Requests == Idx("request")
Connects == Idx("connect")
Recvs == Idx("recv")
Writes(value) == {i \in Idx("pixel") : log[i][2] = value}
Last(S) == CHOOSE i \in S : \A j \in S : j <= i
First(S) == CHOOSE i \in S : \A j \in S : i <= j
IsPollOrSleep(e) == e[1] \in {"ifconfig", "sleep"}
PollsAndSleeps == SelectSeq(log, IsPollOrSleep)

\* the index in log of the link-state read made by connect, 0 when connect has
\* not made one: the first event of a connect call, and the event after
\* <<"connect">> of a verb call
ConnectRead ==
    IF op = "connect" /\ Len(log) >= 1 THEN 1
    ELSE IF Connects # {} /\ Len(log) > First(Connects) THEN First(Connects) + 1
    ELSE 0
LinkUpAtConnect == ConnectRead > 0 /\ log[ConnectRead] = <<"connected", TRUE>>
LinkDownAtConnect == ConnectRead > 0 /\ log[ConnectRead] = <<"connected", FALSE>>
AllUnassigned == \A i \in Polls : log[i][2] = SENTINEL
LinkDownAtVerb == op \in Verbs /\ Len(log) >= 1 /\ log[1] = <<"connected", FALSE>>

\* C1: with the link up and every poll reporting "0.0.0.0", connect(N), N >= 1,
\* returns False after exactly N polls and N-1 sleeps, polls and sleeps
\* alternating from a poll to a poll; before that it has made fewer than N
\* polls and it never returns True.
ConnectExhaustsAttempts ==
    (attempts >= 1 /\ LinkUpAtConnect /\ AllUnassigned) =>
        /\ \A i \in 1 .. Len(PollsAndSleeps) :
              PollsAndSleeps[i][1] = (IF i % 2 = 1 THEN "ifconfig" ELSE "sleep")
        /\ \A i \in Sleeps : log[i][2] = 1
        /\ connect_ret \in {"none", "False"}
        /\ connect_ret = "none" => Cardinality(Polls) < attempts
        /\ connect_ret = "False" =>
              /\ Cardinality(Polls) = attempts
              /\ Cardinality(Sleeps) = attempts - 1
              /\ Len(PollsAndSleeps) % 2 = 1

ConnectExhaustedWitness ==
    /\ op = "connect" /\ pc = "idle" /\ outcome = "False"
    /\ attempts >= 2 /\ Cardinality(Polls) = attempts
    /\ Cardinality(Sleeps) = attempts - 1

\* C2: with the link up and N >= 1, connect(N) gives up only after N polls that
\* all reported "0.0.0.0", so a first other address on poll K <= N is reached;
\* that poll is the last one, connect returns True, and the indicator was set
\* to (100,0,0) once before the first poll and to (0,100,0) once after the
\* last poll.
ConnectSucceedsOnLease ==
    (attempts >= 1 /\ LinkUpAtConnect) =>
        /\ connect_ret = "False" => (AllUnassigned /\ Cardinality(Polls) >= attempts)
        /\ ~AllUnassigned =>
              /\ connect_ret = "True"
              /\ log[Last(Polls)][2] # SENTINEL
              /\ \A i \in Polls \ {Last(Polls)} : log[i][2] = SENTINEL
              /\ Cardinality(Polls) <= attempts
        /\ (connect_ret = "True" /\ HasIndicator) =>
              /\ Cardinality(Writes(CONNECTING)) = 1
              /\ Cardinality(Writes(CONNECTED)) = 1
              /\ First(Writes(CONNECTING)) < First(Polls)
              /\ First(Writes(CONNECTED)) > Last(Polls)
        /\ connect_ret = "True" => ~AllUnassigned

ConnectLeaseOnLastPollWitness ==
    /\ op = "connect" /\ pc = "idle" /\ outcome = "True" /\ HasIndicator
    /\ attempts >= 2 /\ Cardinality(Polls) = attempts
    /\ pixel = CONNECTED

\* C3: when connect reads the link state as down it raises Ethernet_Exception
\* and the call is over with that read as its last event: no poll, no sleep,
\* no write to the indicator; and connect raises it in no other case.
ConnectRaisesWhenLinkDown ==
    /\ LinkDownAtConnect =>
          /\ pc = "idle"
          /\ outcome = "Ethernet_Exception"
          /\ connect_ret = "Ethernet_Exception"
          /\ Len(log) = ConnectRead
          /\ Polls = {} /\ Sleeps = {} /\ Idx("pixel") = {}
    /\ connect_ret = "Ethernet_Exception" => LinkDownAtConnect

ConnectRaisedWitness ==
    /\ op = "connect" /\ pc = "idle" /\ outcome = "Ethernet_Exception"
    /\ HasIndicator /\ log = <<<<"connected", FALSE>>>>

\* C4 as stated: a verb call that found is_connected false has, when it is
\* over, invoked connect exactly once and then made the delegated call.
VerbConnectsThenRequests ==
    (LinkDownAtVerb /\ pc = "idle") =>
        /\ Cardinality(Connects) = 1
        /\ Cardinality(Requests) = 1
        /\ First(Connects) < First(Requests)

\* C4 amended: a verb call that found is_connected false invokes connect exactly
\* once, right after that read and before any delegated call; the delegated
\* call is made, once, exactly when that connect returned (True or False), and
\* when connect raised Ethernet_Exception the verb call ends with that error
\* and no delegated call.
VerbConnectsOnce ==
    LinkDownAtVerb =>
        /\ Len(log) >= 2 /\ log[2] = <<"connect">>
        /\ Cardinality(Connects) = 1
        /\ \A r \in Requests : r > 2 /\ connect_ret \in {"True", "False"}
        /\ Cardinality(Requests) <= 1
        /\ connect_ret = "Ethernet_Exception" =>
              (pc = "idle" /\ outcome = "Ethernet_Exception" /\ Requests = {})
        /\ (pc = "idle" /\ connect_ret \in {"True", "False"}) => Cardinality(Requests) = 1

VerbConnectRaisedWitness ==
    /\ LinkDownAtVerb /\ pc = "idle" /\ outcome = "Ethernet_Exception"
    /\ Connects = {2} /\ Requests = {}

\* C5: a verb call that returned the response wrote (0,0,100) to the indicator
\* before the delegated call and leaves the indicator off.
VerbLeavesIndicatorOff ==
    (op \in Verbs /\ pc = "idle" /\ outcome = "Response" /\ HasIndicator) =>
        /\ Writes(REQUESTING) # {}
        /\ Last(Writes(REQUESTING)) < First(Requests)
        /\ pixel = PIXEL_OFF

\* ---- readline ----
Received == SubSeq(sock, 1, consumed)
TimedOut == timeout > 0 /\ monotonic - initial > timeout
\* the number of bytes before the first CR-LF of s
TerminatorAt(s) == CHOOSE k \in 0 .. (Len(s) - 2) :
                      /\ s[k + 1] = CR /\ s[k + 2] = LF
                      /\ \A j \in 0 .. (k - 1) : ~(s[j + 1] = CR /\ s[j + 2] = LF)

\* C6: while every recv delivers a byte and no timeout elapses, readline goes on
\* until the socket's bytes up to the first CR-LF are read and then returns;
\* it returns the bytes before that CR-LF, has consumed them and the two
\* terminator bytes and nothing more, and has not closed the socket.
ReadlineReturnsLine ==
    /\ pc = "readline_loop" => ~HasCRLF(Received)
    /\ outcome = "RuntimeError" => (TimedOut \/ log[Last(Recvs)][2] = <<>>)
    /\ outcome = "line" =>
          /\ HasCRLF(sock)
          /\ line[1] = SubSeq(sock, 1, TerminatorAt(sock))
          /\ consumed = TerminatorAt(sock) + 2
          /\ Cardinality(Recvs) = consumed
          /\ \A i \in Recvs : Len(log[i][2]) = 1
          /\ ~sock_closed

ReadlineReturnedWitness ==
    /\ outcome = "line" /\ Len(line[1]) >= 1 /\ consumed < Len(sock)
    /\ timeout > 0 /\ monotonic - initial = timeout

\* C7: a recv that returns nothing, or a positive timeout found exceeded after a
\* recv, while the buffer holds no CR-LF, ends readline: it closes the socket
\* right after that recv and raises; the loop never goes on after either, a
\* returned line is never partial, and whenever readline raised the socket is
\* closed.
ReadlineFailsClosed ==
    /\ \A i \in Recvs : log[i][2] = <<>> => (outcome = "RuntimeError" /\ i = Last(Recvs))
    /\ (TimedOut /\ ~HasCRLF(Received)) => (Recvs # {} /\ outcome = "RuntimeError")
    /\ outcome = "RuntimeError" =>
          /\ sock_closed
          /\ pc = "idle"
          /\ Len(log) >= 2
          /\ log[Len(log)] = <<"close">>
          /\ log[Len(log) - 1][1] = "recv"
          /\ Cardinality(Idx("close")) = 1
    /\ outcome = "line" => (HasCRLF(Received) /\ ~HasCRLF(line[1]))
    /\ sock_closed => outcome = "RuntimeError"

ReadlineFailedWitness ==
    /\ outcome = "RuntimeError" /\ sock_closed
    /\ line # <<>> /\ ~HasCRLF(line)
    /\ log[Last(Recvs)][2] = <<>> /\ ~TimedOut

\* C9: readline raises only with a buffer that holds no CR-LF.
ReadlineFailsOnlyWithoutTerminator ==
    outcome = "RuntimeError" => ~HasCRLF(line)

\* ---- deinit ----
NetworkOps == {"is_connected", "connect"} \cup Verbs

\* C8: deinit and scoped exit clear the driver reference, it stays cleared, and
\* with it cleared is_connected, connect and every verb end in an error with
\* nothing recorded: no read or poll of the driver, no delegated call, no
\* write to the indicator.
DeinitEndsNetworkOps ==
    /\ [](op \in {"deinit", "exit"} => eth = "None")
    /\ [][eth = "None" => (eth' = "None" /\ pixel' = pixel)]_vars
    /\ [](eth = "None" =>
            /\ log = <<>>
            /\ pc \in {"idle", "connect_entry"}
            /\ (pc = "idle" /\ op \in NetworkOps) => outcome = "AttributeError")

DeinitThenVerbWitness ==
    /\ eth = "None" /\ pc = "idle" /\ op \in Verbs /\ outcome = "AttributeError"
    /\ HasIndicator /\ connected

\* C10: for every attempts value, connect writes (0,100,0) only right after a
\* poll that reported an address other than "0.0.0.0", and then returns True;
\* a connect that returned False or raised wrote it nowhere, and a connect
\* that returned False returned with the indicator at (100,0,0).
ConnectedColourOnlyOnLease ==
    /\ \A i \in Writes(CONNECTED) :
          /\ i > 1
          /\ log[i - 1][1] = "ifconfig"
          /\ log[i - 1][2] # SENTINEL
          /\ connect_ret = "True"
    /\ connect_ret \in {"False", "Ethernet_Exception", "AttributeError"} =>
          Writes(CONNECTED) = {}
    /\ (connect_ret = "False" /\ HasIndicator) =>
          /\ Writes(CONNECTING) # {}
          /\ \A i \in Idx("pixel") : i < Last(Polls) => log[i][2] = CONNECTING
          /\ log[Last(Polls)][2] = SENTINEL
          /\ op = "connect" => pixel = CONNECTING

ConnectZeroAttemptsWitness ==
    /\ op = "connect" /\ pc = "idle" /\ outcome = "False" /\ attempts <= 0
    /\ HasIndicator /\ pixel = CONNECTING /\ Cardinality(Polls) = 1

====
